---- MODULE Spec2Model ----
\* A model of coopurl (src/coopurl.go): the Handler of the url shortener, its
\* lazily opened badger store, Post/Get/ServeHTTP/Close, and the url
\* normalisation (net/url Parse and String) Post applies before storing.
\*
\* Strings are sequences of one-character strings.  Time is the wall clock in
\* whole seconds (badger keeps an entry's ExpiresAt in unix seconds).
EXTENDS Integers, Sequences, FiniteSets, TLC

\* ---------------------------------------------------------------- bounds

\* goroutines that call into the Handler concurrently
NumThreads == 2
\* the wall clock runs from 1 to MaxTime
MaxTime == 2
\* number of distinct sha256 digests generateId can draw
NumDigests == 2

\* ------------------------------------------------------- program constants

DefaultLength == 8
\* length of a hex-rendered sha256 digest (fmt.Sprintf("%x", sha256.Sum256))
ShaLen == 64
StatusMovedPermanently == 301
StatusInternalServerError == 500

\* ------------------------------------------------------------------ strings

Empty == << >>

Min(a, b) == IF a <= b THEN a ELSE b

HexDigits == <<"0","1","2","3","4","5","6","7","8","9","a","b","c","d","e","f">>

HexChars == {HexDigits[i] : i \in 1..16}

LowerLetters == {"a", "b", "h", "t", "p"}

UpperLetters == {"B"}

IsLetter(c) == c \in LowerLetters \cup UpperLetters

\* strings.ToLower on one character
ToLowerChar(c) == IF c = "B" THEN "b" ELSE c

\* strings.ToLower
ToLower(s) == [i \in 1..Len(s) |-> ToLowerChar(s[i])]

\* strings.Index(s, c) + 1, or 0 when c does not occur in s
IndexOf(s, c) ==
  IF \E i \in 1..Len(s) : s[i] = c
  THEN CHOOSE i \in 1..Len(s) : s[i] = c /\ \A j \in 1..(i - 1) : s[j] # c
  ELSE 0

\* strings.LastIndex(s, c) + 1, or 0
LastIndexOf(s, c) ==
  IF \E i \in 1..Len(s) : s[i] = c
  THEN CHOOSE i \in 1..Len(s) : s[i] = c /\ \A j \in (i + 1)..Len(s) : s[j] # c
  ELSE 0

HasPrefix(s, p) == Len(s) >= Len(p) /\ SubSeq(s, 1, Len(p)) = p

Contains(s, c) == IndexOf(s, c) # 0

\* s[k:] of Go, k counted from 0
From(s, k) == SubSeq(s, k + 1, Len(s))

\* ---------------------------------------------- net/url as used by post

\* The strings Post is given in the model are made of lower-case letters,
\* the upper-case letter B, ':' and '/'.

\* url.getScheme: the leading "scheme:" of rawURL.  A ':' at position 0 is
\* the error "missing protocol scheme"; a character that is no letter
\* before the first ':' means there is no scheme.
getScheme(rawURL) ==
  LET stop == IF \E i \in 1..Len(rawURL) : ~IsLetter(rawURL[i])
              THEN CHOOSE i \in 1..Len(rawURL) :
                     /\ ~IsLetter(rawURL[i])
                     /\ \A j \in 1..(i - 1) : IsLetter(rawURL[j])
              ELSE 0
  IN  IF stop = 0 \/ rawURL[stop] # ":"
      THEN [scheme |-> Empty, rest |-> rawURL, err |-> FALSE]
      ELSE IF stop = 1
      THEN [scheme |-> Empty, rest |-> Empty, err |-> TRUE]
      ELSE [scheme |-> SubSeq(rawURL, 1, stop - 1),
            rest |-> From(rawURL, stop), err |-> FALSE]

\* url.validOptionalPort on the ":port" suffix of a host: empty, or ':'
\* followed by digits only (the model's characters hold no digit).
validOptionalPort(port) == port = Empty \/ port = <<":">>

\* url.parseHost: a host whose last ':' is followed by a non-port is refused.
hostOk(host) ==
  LET i == LastIndexOf(host, ":")
  IN  i = 0 \/ validOptionalPort(From(host, i - 1))

ParseError == [ok |-> FALSE, Scheme |-> Empty, Opaque |-> Empty, Host |-> Empty,
               Path |-> Empty, OmitHost |-> FALSE]

\* url.Parse(rawURL) for a string without '#', '?', '%', '@' or control
\* characters: scheme (lower-cased), then an opaque rest, or //authority
\* and path.
Parse(rawURL) ==
  LET g == getScheme(rawURL)
      scheme == ToLower(g.scheme)
      rest == g.rest
      U(opaque, host, path, omit) ==
        [ok |-> TRUE, Scheme |-> scheme, Opaque |-> opaque, Host |-> host,
         Path |-> path, OmitHost |-> omit]
  IN  IF g.err THEN ParseError
      ELSE IF ~HasPrefix(rest, <<"/">>) /\ scheme # Empty
      THEN U(rest, Empty, Empty, FALSE)
      ELSE IF /\ ~HasPrefix(rest, <<"/">>)
              /\ LET cut == IndexOf(rest, "/")
                     segment == IF cut = 0 THEN rest ELSE SubSeq(rest, 1, cut - 1)
                 IN  Contains(segment, ":")
      THEN ParseError
      ELSE IF /\ (scheme # Empty \/ ~HasPrefix(rest, <<"/","/","/">>))
              /\ HasPrefix(rest, <<"/","/">>)
      THEN LET auth0 == From(rest, 2)
               i == IndexOf(auth0, "/")
               authority == IF i = 0 THEN auth0 ELSE SubSeq(auth0, 1, i - 1)
               path == IF i = 0 THEN Empty ELSE From(auth0, i - 1)
           IN  IF hostOk(authority) THEN U(Empty, authority, path, FALSE)
               ELSE ParseError
      ELSE U(Empty, Empty, rest, scheme # Empty /\ HasPrefix(rest, <<"/">>))

\* (*URL).String()
String(u) ==
  LET head == IF u.Scheme # Empty THEN u.Scheme \o <<":">> ELSE Empty
      auth == IF u.Scheme # Empty \/ u.Host # Empty
              THEN IF u.OmitHost /\ u.Host = Empty THEN Empty
                   ELSE (IF u.Host # Empty \/ u.Path # Empty
                         THEN <<"/","/">> ELSE Empty) \o u.Host
              ELSE Empty
      slash == IF u.Path # Empty /\ u.Path[1] # "/" /\ u.Host # Empty
               THEN <<"/">> ELSE Empty
      cut == IndexOf(u.Path, "/")
      segment == IF cut = 0 THEN u.Path ELSE SubSeq(u.Path, 1, cut - 1)
      dot == IF head \o auth \o slash = Empty /\ Contains(segment, ":")
             THEN <<".","/">> ELSE Empty
  IN  IF u.Opaque # Empty THEN head \o u.Opaque
      ELSE head \o auth \o slash \o dot \o u.Path

HTTP == <<"h","t","t","p">>

\* ------------------------------------------------------------ identifiers

Digests == 1..NumDigests

\* fmt.Sprintf("%x", sha256.Sum256(url + "-" + time.Now())): 64 lower-case
\* hex digits.  The digest depends on the clock reading, so which digest a
\* call draws is the environment's choice d.
sha(d) == [i \in 1..ShaLen |-> HexDigits[((d * i) % 16) + 1]]

\* generateId(url, n), having drawn digest d
generateId(d, n) == IF n >= ShaLen THEN sha(d) ELSE SubSeq(sha(d), 1, n)

\* ------------------------------------------------------------------ inputs

\* Handler.Length and Handler.TTL as the options of New, or the fields of a
\* Handler literal, set them
HandlerLengths == {0, 3}

HandlerTTLs == {0, 1}

\* the req a call's ReqOptions build: none, WithLength(n), WithTTL(t)
NoReq == [length |-> 0, ttl |-> 0]

WithLength(n) == [length |-> n, ttl |-> 0]

WithTTL(t) == [length |-> 0, ttl |-> t]

ReqOptions == {NoReq, WithLength(2), WithTTL(2)}

\* the url strings Post is called with: "a" and "//a" (no scheme), "b://a",
\* "B://a" (an upper-case scheme), ":a" (no scheme before the colon) and
\* "//a:a" (no valid port), the last two no valid urls
UrlInputs == { <<"a">>, <<"/","/","a">>, <<"b",":","/","/","a">>,
               <<"B",":","/","/","a">>, <<":","a">>, <<"/","/","a",":","a">> }

Threads == 1..NumThreads

\* ------------------------------------------------------------------- state

VARIABLES
  handle,   \* "none", "live" (a Handler literal, or the one New returned), "failed" (New returned nil)
  Length,   \* Handler.Length
  TTL,      \* Handler.TTL
  db,       \* Handler.db: "nil", "open", or "closed" (non-nil, and closed by Close)
  store,    \* the badger directory: id -> [url, exp], exp = ExpiresAt, 0 for none
  now,      \* time.Now() in seconds
  pc,       \* per goroutine: where it is in its call
  op,       \* per goroutine: the call it is in
  w500,     \* per goroutine: ServeHTTP has written the 500 header
  quiet,    \* Close was called on an open handle with no call in flight
  ret       \* what the call that completed in the last step returned

vars == <<handle, Length, TTL, db, store, now, pc, op, w500, quiet, ret>>

\* errors
ErrNone == "nil"
ErrOpen == "open failed"
ErrParse == "parse"
ErrKeyNotFound == "Key not found"
ErrDBClosed == "DB Closed"
NilDeref == "panic: nil pointer dereference"

NoRet == [op |-> "none", u |-> Empty, r |-> NoReq, id |-> Empty, val |-> Empty,
          err |-> ErrNone, status |-> 0, loc |-> Empty, redirect |-> FALSE,
          after |-> Empty]

Init ==
  /\ handle = "none"
  /\ Length = 0
  /\ TTL = 0
  /\ db = "nil"
  /\ store = << >>
  /\ now = 1
  /\ pc = [t \in Threads |-> "idle"]
  /\ op = [t \in Threads |-> "none"]
  /\ w500 = [t \in Threads |-> FALSE]
  /\ quiet = FALSE
  /\ ret = NoRet

\* ------------------------------------------------------------------ helpers

Idle == \A t \in Threads : pc[t] = "idle"

\* Handler.getLength
getLength(r) ==
  IF r.length > 0 THEN r.length
  ELSE IF Length > 0 THEN Length
  ELSE DefaultLength

\* badger: an entry is expired once its ExpiresAt, when set, is not after
\* the clock
isExpired(e, time) == e.exp # 0 /\ e.exp <= time

\* txnGet with the error of txn.Get dropped: a missing key reads as ""
txnGetNoErr(id) ==
  IF id \in DOMAIN store /\ ~isExpired(store[id], now)
  THEN [val |-> store[id].url, err |-> ErrNone]
  ELSE [val |-> Empty, err |-> ErrNone]

\* txn.Get(id) and item.ValueCopy inside db.View (get's closure)
txnGet(id) ==
  IF id \in DOMAIN store /\ ~isExpired(store[id], now)
  THEN [val |-> store[id].url, err |-> ErrNone]
  ELSE [val |-> Empty, err |-> ErrKeyNotFound]

\* Handler.get: h.db.View on the handle as it is now.  A nil h.db is
\* dereferenced; a closed DB refuses the transaction.
get(id) ==
  IF db = "nil" THEN [val |-> Empty, err |-> NilDeref]
  ELSE IF db = "closed" THEN [val |-> Empty, err |-> ErrDBClosed]
  ELSE txnGet(id)

\* normalize without the default scheme
normalizeAsIs(u) == String(u)

\* the url post stores: the parsed url, its scheme set to http when it has
\* none, written back with String()
normalize(u) == String(IF u.Scheme = Empty THEN [u EXCEPT !.Scheme = HTTP] ELSE u)

\* txnSet that keeps the entry an id already has
txnSetIfAbsent(id, url, ttl) ==
  [k \in DOMAIN store \cup {id} |->
     IF k \in DOMAIN store THEN store[k]
     ELSE [url |-> url, exp |-> IF ttl # 0 THEN now + ttl ELSE 0]]

\* txnSet that always takes the txn.Set branch: no entry gets a TTL
txnSetNoTTL(id, url, ttl) ==
  [k \in DOMAIN store \cup {id} |->
     IF k = id THEN [url |-> url, exp |-> 0] ELSE store[k]]

\* txn.SetEntry(NewEntry(id, url).WithTTL(ttl)) or txn.Set(id, url)
txnSet(id, url, ttl) ==
  [k \in DOMAIN store \cup {id} |->
     IF k = id THEN [url |-> url, exp |-> IF ttl # 0 THEN now + ttl ELSE 0]
     ELSE store[k]]

\* Handler.post(s, opts...), r the req its opts build and d the digest drawn
post(s, r, d) ==
  LET u == Parse(s)
      id == generateId(d, getLength(r))
      ttl == IF r.ttl = 0 THEN TTL ELSE r.ttl
      fail(e) == [id |-> Empty, err |-> e, store |-> store]
  IN  IF ~u.ok THEN fail(ErrParse)
      ELSE IF db = "nil" THEN fail(NilDeref)
      ELSE IF db = "closed" THEN fail(ErrDBClosed)
      ELSE [id |-> id, err |-> ErrNone, store |-> txnSet(id, normalize(u), ttl)]

\* Handler.Post(url, opts...) after init: it calls h.post(url), without opts
Post(s, r, d) == post(s, NoReq, d)

\* path.Split(p): what follows the last '/'
pathSplit(p) == From(p, LastIndexOf(p, "/"))

\* redirect(w, r, s) and the end of ServeHTTP: the status is that of the
\* first WriteHeader of the request
redirect(s, wrote500) ==
  LET u == Parse(s)
  IN  IF ~u.ok
      THEN [status |-> StatusInternalServerError, loc |-> Empty, redirect |-> FALSE]
      ELSE [status |-> IF wrote500 THEN StatusInternalServerError
                       ELSE StatusMovedPermanently,
            loc |-> String(u), redirect |-> TRUE]

\* a Close that also resets h.db to nil
closeDbToNil(d) == "nil"

\* Close(): h.db.Close() leaves h.db what it was, a nil h.db included
closeDb(d) == IF d = "nil" THEN "nil" ELSE "closed"

\* the ids a caller asks for: what generateId can give, and one it cannot
Ids == {generateId(d, getLength(NoReq)) : d \in Digests} \cup DOMAIN store
         \cup {<<"0", "0">>}

Paths == {<<"/", "r", "/">> \o id : id \in Ids}

\* <<u>> when the call that completed in the last step was a successful
\* Post(u) that returned id
justPosted(id) ==
  IF ret.op = "Post" /\ ret.err = ErrNone /\ ret.id = id THEN <<ret.u>> ELSE Empty

\* the goroutine's call has returned
Return(t) ==
  /\ pc' = [pc EXCEPT ![t] = "idle"]
  /\ op' = [op EXCEPT ![t] = "none"]
  /\ w500' = [w500 EXCEPT ![t] = FALSE]

\* ----------------------------------------------------------------- actions

\* var h Handler / &Handler{Length: l, TTL: ttl}: no store is opened
Literal(l, ttl) ==
  /\ handle = "none"
  /\ handle' = "live"
  /\ Length' = l
  /\ TTL' = ttl
  /\ ret' = NoRet
  /\ UNCHANGED <<db, store, now, pc, op, w500, quiet>>

\* New(WithDefaultLength(l), WithDefaultTTL(ttl)): the options, then open
New(l, ttl, ok) ==
  /\ handle = "none"
  /\ handle' = IF ok THEN "live" ELSE "failed"
  /\ Length' = l
  /\ TTL' = ttl
  /\ db' = IF ok THEN "open" ELSE "nil"
  /\ ret' = [NoRet EXCEPT !.op = "New", !.err = IF ok THEN ErrNone ELSE ErrOpen]
  /\ UNCHANGED <<store, now, pc, op, w500, quiet>>

\* a goroutine enters Get, Post or ServeHTTP, and init reads h.db
Enter(t, o) ==
  /\ handle = "live"
  /\ pc[t] = "idle"
  /\ op' = [op EXCEPT ![t] = o]
  /\ pc' = [pc EXCEPT ![t] = IF db = "nil" THEN "open"
                             ELSE IF o = "Serve" THEN "get" ELSE "body"]
  /\ ret' = NoRet
  /\ UNCHANGED <<handle, Length, TTL, db, store, now, w500, quiet>>

\* Handler.open under h.mu, called by init: h.db, err = badger.Open(opt).
\* After a failed open Get and Post return the error; ServeHTTP writes the
\* 500 header and goes on to h.Get, whose own failed open ends the request.
Open(t, ok) ==
  /\ pc[t] \in {"open", "open2"}
  /\ db' = IF ok THEN "open" ELSE "nil"
  /\ IF op[t] = "Serve" /\ pc[t] = "open"
     THEN /\ pc' = [pc EXCEPT ![t] = "get"]
          /\ w500' = [w500 EXCEPT ![t] = ~ok]
          /\ op' = op
          /\ ret' = NoRet
     ELSE IF ok
     THEN /\ pc' = [pc EXCEPT ![t] = "body"]
          /\ UNCHANGED <<op, w500>>
          /\ ret' = NoRet
     ELSE /\ Return(t)
          /\ ret' = [NoRet EXCEPT !.op = op[t], !.err = ErrOpen,
                       !.status = IF op[t] = "Serve"
                                  THEN StatusInternalServerError ELSE 0]
  /\ UNCHANGED <<handle, Length, TTL, store, now, quiet>>

\* ServeHTTP calls h.Get, whose init reads h.db again
ReInit(t) ==
  /\ pc[t] = "get"
  /\ pc' = [pc EXCEPT ![t] = IF db = "nil" THEN "open2" ELSE "body"]
  /\ ret' = NoRet
  /\ UNCHANGED <<handle, Length, TTL, db, store, now, op, w500, quiet>>

\* Get(id), after init: h.get(id)
GetBody(t, id) ==
  /\ pc[t] = "body" /\ op[t] = "Get"
  /\ LET g == get(id)
     IN  ret' = [NoRet EXCEPT !.op = "Get", !.id = id, !.val = g.val,
                   !.err = g.err, !.after = justPosted(id)]
  /\ Return(t)
  /\ UNCHANGED <<handle, Length, TTL, db, store, now, quiet>>

\* Post(s, opts...), after init, with r the req of opts and d the digest
PostBody(t, s, r, d) ==
  /\ pc[t] = "body" /\ op[t] = "Post"
  /\ LET p == Post(s, r, d)
     IN  /\ store' = p.store
         /\ ret' = [NoRet EXCEPT !.op = "Post", !.u = s, !.r = r, !.id = p.id,
                      !.err = p.err]
  /\ Return(t)
  /\ UNCHANGED <<handle, Length, TTL, db, now, quiet>>

\* ServeHTTP from path.Split on: h.get, then redirect or the 500 header
ServeBody(t, p) ==
  /\ pc[t] = "body" /\ op[t] = "Serve"
  /\ LET id == pathSplit(p)
         g == get(id)
         w == IF g.err = ErrNone THEN redirect(g.val, w500[t])
              ELSE [status |-> IF g.err = NilDeref /\ ~w500[t] THEN 0
                               ELSE StatusInternalServerError,
                    loc |-> Empty, redirect |-> FALSE]
     IN  ret' = [NoRet EXCEPT !.op = "Serve", !.id = id, !.val = g.val,
                   !.err = g.err, !.status = w.status,
                   !.loc = w.loc, !.redirect = w.redirect]
  /\ Return(t)
  /\ UNCHANGED <<handle, Length, TTL, db, store, now, quiet>>

\* Close(): h.db.Close(), whatever h.db is
Close ==
  /\ handle = "live"
  /\ db' = closeDb(db)
  /\ quiet' = (quiet \/ (db = "open" /\ Idle))
  /\ ret' = [NoRet EXCEPT !.op = "Close",
               !.err = IF db = "nil" THEN NilDeref ELSE ErrNone]
  /\ UNCHANGED <<handle, Length, TTL, store, now, pc, op, w500>>

\* a second passes
Tick ==
  /\ now < MaxTime
  /\ now' = now + 1
  /\ ret' = NoRet
  /\ UNCHANGED <<handle, Length, TTL, db, store, pc, op, w500, quiet>>

Next ==
  \/ \E l \in HandlerLengths, ttl \in HandlerTTLs : Literal(l, ttl)
  \/ \E l \in HandlerLengths, ttl \in HandlerTTLs, ok \in BOOLEAN : New(l, ttl, ok)
  \/ \E t \in Threads, o \in {"Get", "Post", "Serve"} : Enter(t, o)
  \/ \E t \in Threads, ok \in BOOLEAN : Open(t, ok)
  \/ \E t \in Threads : ReInit(t)
  \/ \E t \in Threads, id \in Ids : GetBody(t, id)
  \/ \E t \in Threads, s \in UrlInputs, r \in ReqOptions, d \in Digests : PostBody(t, s, r, d)
  \/ \E t \in Threads, p \in Paths : ServeBody(t, p)
  \/ Close
  \/ Tick

Spec == Init /\ [][Next]_vars

\* ------------------------------------------------------------------ claims

IsHex(id) == \A i \in 1..Len(id) : id[i] \in HexChars

\* the url Post(u) is to store: u parsed, its scheme http when it has
\* none, written back
Stored(u) ==
  LET p == Parse(u)
  IN  String([p EXCEPT !.Scheme = IF p.Scheme = Empty THEN HTTP ELSE p.Scheme])

\* C1: the id a successful Post returns has min(n, 64) lower-case hex
\* digits, n being the per-call length when one is given (> 0), else the
\* instance default when > 0, else 8.
C1_PostLength ==
  (ret.op = "Post" /\ ret.err = ErrNone) =>
    LET n == IF ret.r.length > 0 THEN ret.r.length
             ELSE IF Length > 0 THEN Length ELSE DefaultLength
    IN  Len(ret.id) = Min(n, ShaLen) /\ IsHex(ret.id)

\* C2 as stated: right after a successful Post(u) that returned id, Get(id)
\* returns u itself when u has a scheme, and u with scheme http otherwise.
C2_RoundTripSameUrl ==
  (ret.op = "Get" /\ ret.after # Empty) =>
    /\ ret.err = ErrNone
    /\ ret.val = IF Parse(ret.after[1]).Scheme # Empty THEN ret.after[1]
                 ELSE Stored(ret.after[1])

\* C2 as amended: a successful Post(u) leaves under its id, whatever was
\* there before, the url u parses to, written back with its scheme
\* lower-cased, or http when u has none; a Get(id) that completes right
\* after it returns that url without error.
C2_RoundTrip ==
  /\ (ret.op = "Post" /\ ret.err = ErrNone) =>
       /\ ret.id \in DOMAIN store
       /\ store[ret.id].url = Stored(ret.u)
       /\ get(ret.id) = [val |-> Stored(ret.u), err |-> ErrNone]
  /\ (ret.op = "Get" /\ ret.after # Empty) =>
       /\ ret.err = ErrNone
       /\ ret.val = Stored(ret.after[1])

\* a Get right after the Post of "B://a" has returned "b://a"
C2_Witness ==
  /\ ret.op = "Get"
  /\ ret.after = << <<"B",":","/","/","a">> >>
  /\ ret.val = <<"b",":","/","/","a">>

\* C3: no goroutine calls badger.Open on a Handler whose store is open:
\* concurrent first uses open the store once.
C3_OpenOnce ==
  [][\A t \in Threads :
       (pc[t] \in {"open", "open2"} /\ pc'[t] # pc[t]) => db # "open"]_vars

\* C4: the entry a successful Post writes expires after the per-call TTL
\* when one is given (# 0), else after the instance TTL, and never when
\* that is 0.
C4_PostTTL ==
  (ret.op = "Post" /\ ret.err = ErrNone) =>
    LET t == IF ret.r.ttl # 0 THEN ret.r.ttl ELSE TTL
    IN  /\ ret.id \in DOMAIN store
        /\ store[ret.id].exp = IF t = 0 THEN 0 ELSE now + t

C6_ServeStatus ==
  (ret.op = "Serve" /\ ret.err # NilDeref) =>
    IF ret.err = ErrNone /\ Parse(ret.val).ok
    THEN /\ ret.status = StatusMovedPermanently
         /\ ret.redirect
         /\ ret.loc = ret.val
    ELSE /\ ret.status = StatusInternalServerError
         /\ ~ret.redirect

\* C7: a Get of an id that is no key of the store returns "" and an error,
\* not-found on an open handle, and no Get changes the store.
C7_GetMissing ==
  /\ []((ret.op = "Get" /\ ret.id \notin DOMAIN store) =>
          /\ ret.val = Empty
          /\ ret.err # ErrNone
          /\ db = "open" => ret.err = ErrKeyNotFound)
  /\ [][ret'.op = "Get" => store' = store]_vars

\* a Get of a missing id has failed on an open handle that holds entries
C7_Witness ==
  /\ ret.op = "Get" /\ db = "open"
  /\ ret.id \notin DOMAIN store
  /\ DOMAIN store # {}
  /\ ret.err = ErrKeyNotFound

\* C8: no call dereferences a nil store handle.
C8_NoNilDeref == ret.err # NilDeref

\* C9: once Close has been called on an open handle with no call in
\* flight, the handle stays closed (the lazy init does not open it again),
\* every later Get, Post and ServeHTTP fails and returns no url, id or
\* redirect, and the store is not written.
C9_AfterClose ==
  /\ [](quiet =>
          /\ db = "closed"
          /\ ret.op \in {"Get", "Post", "Serve"} =>
               /\ ret.err # ErrNone
               /\ ret.val = Empty
               /\ ret.op = "Post" => ret.id = Empty
               /\ ~ret.redirect)
  /\ [][quiet => store' = store]_vars

\* a Post of a valid url has failed on a closed handle that holds entries
C9_Witness ==
  /\ quiet
  /\ ret.op = "Post" /\ ret.u = <<"a">> /\ ret.err = ErrDBClosed
  /\ DOMAIN store # {}

\* C10: every url in the store parses and has a scheme; the entry a
\* successful Post(u) writes has u's scheme, or http when u has none; a Post
\* that fails returns no id and leaves the store as it was.
C10_StoredUrls ==
  /\ [](/\ \A k \in DOMAIN store :
             Parse(store[k].url).ok /\ Parse(store[k].url).Scheme # Empty
        /\ (ret.op = "Post" /\ ret.err = ErrNone) =>
             Parse(store[ret.id].url).Scheme =
               IF Parse(ret.u).Scheme = Empty THEN HTTP ELSE Parse(ret.u).Scheme
        /\ (ret.op = "Post" /\ ret.err # ErrNone) => ret.id = Empty)
  /\ [][(ret'.op = "Post" /\ ret'.err # ErrNone) => store' = store]_vars

\* a Post has failed to parse its url on a handle whose store holds the
\* http form of a url that had no scheme
C10_Witness ==
  /\ ret.op = "Post" /\ ret.err = ErrParse
  /\ \E k \in DOMAIN store : store[k].url = <<"h","t","t","p",":","/","/","a">>

====
